---- MODULE Spec2Model ----
(***************************************************************************)
(* Model of src/app.py, the "Scam Likely Mini API" (version 0.3): the two  *)
(* in-memory stores ENTITIES and REPORTS, the handlers that write them     *)
(* (create_report, publish_report) and the handlers that read them         *)
(* (recent_entities, search).  The dispute operation of the repository is  *)
(* not part of src/app.py; it is modelled from section 4.4 of the          *)
(* specification (open_dispute, DISPUTES) and only SpecD takes it.         *)
(*                                                                         *)
(* Encoding.  A Python dict keeps insertion order, so each store is the    *)
(* sequence of its values in insertion order.  JSON values are strings:    *)
(* None (and an absent dict key, which dict.get cannot tell from None) is  *)
(* "null", the booleans are "true" and "false", a nested object is its     *)
(* text.  uuid.uuid4() is a fresh identifier: the n-th draw made for a     *)
(* store is Uuid(store, n), so that no two draws agree.                    *)
(* Report fields that no modelled handler reads and that are copied from   *)
(* the payload verbatim (category, narrative, amount_cents, incident_date, *)
(* incident_mode, incident_location, reporter_public_anonymous,            *)
(* reporter_email, created_at) are left out of the stored report.          *)
(* The request schema is enforced before a handler runs: incident_mode is  *)
(* one of the two literals and every e-mail is a string, stored as sent.   *)
(* The variable last is the status code and body of the latest response;   *)
(* submitted lists, for every submission answered 200, the phones sent and *)
(* the entity_id returned.                                                 *)
(***************************************************************************)
EXTENDS Integers, Sequences, FiniteSets, TLC

VARIABLES ENTITIES, REPORTS, DISPUTES, submitted, last

vars == <<ENTITIES, REPORTS, DISPUTES, submitted, last>>

----------------------------------------------------------------------------
(* Bounds of the model *)

\* reports the store may hold, the seeded one included
MaxReports == 3
\* disputes the store may hold
MaxDisputes == 1
\* reports the store may hold where disputes are opened too
MaxReportsD == 2

----------------------------------------------------------------------------
(* Python values *)

None == "null"

\* bool(v) of a JSON value
Truthy(v) == v \notin {"null", "false", ""}

\* a or b
Or(a, b) == IF Truthy(a) THEN a ELSE b

\* d.get(k) of a dict
Get(d, k) == IF k \in DOMAIN d THEN d[k] ELSE None

\* d.get(k) or [] of a dict whose value at k is a list
GetList(d, k) == IF k \in DOMAIN d THEN d[k] ELSE <<>>

Range(s) == {s[i] : i \in 1..Len(s)}

\* the characters of the strings of the model
Chars(s) ==
    CASE s = "" -> <<>>
      [] s = "ABC Web Solutions" ->
           <<"A","B","C"," ","W","e","b"," ","S","o","l","u","t","i","o","n","s">>
      [] s = "Acme LLC" -> <<"A","c","m","e"," ","L","L","C">>
      [] s = "Bob Roe" -> <<"B","o","b"," ","R","o","e">>
      [] s = "Unknown" -> <<"U","n","k","n","o","w","n">>
      [] s = "+14435550123" -> <<"+","1","4","4","3","5","5","5","0","1","2","3">>
      [] s = "+13015550199" -> <<"+","1","3","0","1","5","5","5","0","1","9","9">>
      [] s = "owner@abcweb.co" ->
           <<"o","w","n","e","r","@","a","b","c","w","e","b",".","c","o">>
      [] s = "OWNER@ABCWEB.CO" ->
           <<"O","W","N","E","R","@","A","B","C","W","E","B",".","C","O">>
      [] s = "tips@scam.io" -> <<"t","i","p","s","@","s","c","a","m",".","i","o">>
      [] s = "TIPS@SCAM.IO" -> <<"T","I","P","S","@","S","C","A","M",".","I","O">>
      [] s = "ACME" -> <<"A","C","M","E">>
      [] s = "555" -> <<"5","5","5">>
      [] s = "tips@" -> <<"t","i","p","s","@">>
      [] s = "zzz" -> <<"z","z","z">>

LowerChar(c) ==
    CASE c = "A" -> "a" [] c = "B" -> "b" [] c = "C" -> "c" [] c = "E" -> "e"
      [] c = "I" -> "i" [] c = "L" -> "l" [] c = "M" -> "m" [] c = "N" -> "n"
      [] c = "O" -> "o" [] c = "P" -> "p" [] c = "R" -> "r" [] c = "S" -> "s"
      [] c = "T" -> "t" [] c = "U" -> "u" [] c = "W" -> "w"
      [] OTHER -> c

\* text.lower(), on characters
LowerText(t) == [i \in 1..Len(t) |-> LowerChar(t[i])]

\* s.lower() of a string
Lower(s) == LowerText(Chars(s))

\* " ".join(parts), on characters
RECURSIVE Join(_)
Join(parts) ==
    IF Len(parts) = 0 THEN <<>>
    ELSE IF Len(parts) = 1 THEN parts[1]
    ELSE parts[1] \o <<" ">> \o Join(Tail(parts))

\* q in hay
Contains(hay, q) ==
    \E i \in 0..(Len(hay) - Len(q)) : SubSeq(hay, i + 1, i + Len(q)) = q

\* str(uuid.uuid4()): the n-th draw made for the store named kind
Uuid(kind, n) == kind \o "-uuid-" \o ToString(n)

----------------------------------------------------------------------------
(* Seed data *)

SeedEntity ==
    [id |-> "demo-1",
     display_name |-> "ABC Web Solutions",
     type |-> "business",
     top_identifier |-> "+1 (443) 555-0123",
     phones |-> <<"+14435550123">>,
     emails |-> <<"owner@abcweb.co">>,
     state |-> "MD",
     city |-> "Baltimore",
     report_count |-> 1]

SeedReport ==
    [id |-> Uuid("report", 1),
     entity_id |-> "demo-1",
     status |-> "published"]

Init ==
    /\ ENTITIES = <<SeedEntity>>
    /\ REPORTS = <<SeedReport>>
    /\ DISPUTES = <<>>
    /\ submitted = <<>>
    /\ last = [op |-> "startup", code |-> 0]

----------------------------------------------------------------------------
(* Requests *)

\* identifiers of a ReportCreate: one matching the seeded entity by phone,
\* one matching it by e-mail in another case while carrying a new phone, the
\* new phone alone, a new e-mail in upper case, the same e-mail in lower
\* case with the new phone, and no identifier at all
IdentifierChoices ==
    {[business_name |-> "Acme LLC", gov_name |-> None,
      phones |-> <<"+14435550123">>, emails |-> <<>>],
     [business_name |-> None, gov_name |-> "Bob Roe",
      phones |-> <<"+13015550199">>, emails |-> <<"OWNER@ABCWEB.CO">>],
     [business_name |-> None, gov_name |-> None,
      phones |-> <<"+13015550199">>, emails |-> <<>>],
     [business_name |-> "Acme LLC", gov_name |-> None,
      phones |-> <<>>, emails |-> <<"TIPS@SCAM.IO">>],
     [business_name |-> None, gov_name |-> "Bob Roe",
      phones |-> <<"+13015550199">>, emails |-> <<"tips@scam.io">>],
     [business_name |-> None, gov_name |-> None,
      phones |-> <<>>, emails |-> <<>>]}

Locations ==
    {[unknown |-> "false"],
     [scammer_origin |-> "{city:Lagos,country:NG}"],
     [unknown |-> "true"],
     [city |-> "Baltimore", state |-> "MD", country |-> "US"],
     [city |-> "Baltimore", country |-> "US"]}

Modes == {"digital", "in_person"}

Payloads ==
    {[identifiers |-> ids, incident_mode |-> m, incident_location |-> loc] :
        ids \in IdentifierChoices, m \in Modes, loc \in Locations}

----------------------------------------------------------------------------
(* POST /v1/reports *)

\* LocationOk with the in-person rule asking for city and country only
LocationOk_StateOptional(payload) ==
    LET loc == payload.incident_location IN
    IF payload.incident_mode = "digital"
    THEN Truthy(Get(loc, "scammer_origin")) \/ Truthy(Get(loc, "unknown"))
    ELSE Truthy(Get(loc, "city")) /\ Truthy(Get(loc, "country"))

\* the location rules: TRUE when create_report raises no HTTPException(400)
LocationOk(payload) ==
    LET loc == payload.incident_location IN
    IF payload.incident_mode = "digital"
    THEN LET origin == Get(loc, "scammer_origin")
             unknown == Get(loc, "unknown")
         IN ~(~Truthy(origin) /\ ~Truthy(unknown))
    ELSE IF payload.incident_mode = "in_person"
    THEN Truthy(Get(loc, "city")) /\ Truthy(Get(loc, "state"))
            /\ Truthy(Get(loc, "country"))
    ELSE FALSE

\* Matches with the e-mails compared as they are written
Matches_CaseSensitive(e, identifiers) ==
    \/ \E i \in 1..Len(identifiers.phones) :
          identifiers.phones[i] \in Range(GetList(e, "phones"))
    \/ \E i \in 1..Len(identifiers.emails) :
          identifiers.emails[i] \in Range(GetList(e, "emails"))

\* the condition of the matching loop for one entity e
Matches(e, identifiers) ==
    \/ \E i \in 1..Len(identifiers.phones) :
          identifiers.phones[i] \in Range(GetList(e, "phones"))
    \/ \E i \in 1..Len(identifiers.emails) :
          Lower(identifiers.emails[i]) \in
              {Lower(em) : em \in Range(GetList(e, "emails"))}

\* match_id after the loop: the id of the first matching entity, else None
FindMatch(ents, identifiers) ==
    LET hits == {i \in 1..Len(ents) : Matches(ents[i], identifiers)} IN
    IF hits = {} THEN None
    ELSE ents[CHOOSE i \in hits : \A j \in hits : i <= j].id

NewEntity(eid, payload) ==
    [id |-> eid,
     display_name |-> Or(payload.identifiers.business_name,
                         Or(payload.identifiers.gov_name, "Unknown")),
     type |-> IF Truthy(payload.identifiers.business_name)
              THEN "business" ELSE "person",
     phones |-> payload.identifiers.phones,
     emails |-> payload.identifiers.emails,
     state |-> Get(payload.incident_location, "state"),
     city |-> Get(payload.incident_location, "city")]

NewReport(rid, match_id) ==
    [id |-> rid,
     entity_id |-> match_id,
     status |-> "pending"]

\* InsertEntity with the store left as it was
InsertEntity_Forgotten(ents, e) == ents

\* ENTITIES[eid] = {...}
InsertEntity(ents, e) == Append(ents, e)

\* the handler as a function of the store: the store it leaves and its answer
CreateReport(ents, reports, payload) ==
    IF ~LocationOk(payload)
    THEN [ENTITIES |-> ents, REPORTS |-> reports,
          code |-> 400, body |-> [detail |-> "location"]]
    ELSE LET found == FindMatch(ents, payload.identifiers)
             eid == Uuid("entity", Len(ents))
             match_id == IF ~Truthy(found) THEN eid ELSE found
             rid == Uuid("report", Len(reports) + 1)
         IN [ENTITIES |-> IF ~Truthy(found)
                          THEN InsertEntity(ents, NewEntity(eid, payload))
                          ELSE ents,
             REPORTS |-> Append(reports, NewReport(rid, match_id)),
             code |-> 200,
             body |-> [id |-> rid, status |-> "pending", entity_id |-> match_id]]

create_report(payload) ==
    LET out == CreateReport(ENTITIES, REPORTS, payload) IN
    /\ out.code = 200 => Len(REPORTS) < MaxReports
    /\ ENTITIES' = out.ENTITIES
    /\ REPORTS' = out.REPORTS
    /\ submitted' = IF out.code = 200
                    THEN Append(submitted, [phones |-> payload.identifiers.phones,
                                            entity_id |-> out.body.entity_id])
                    ELSE submitted
    /\ last' = [op |-> "create_report", code |-> out.code, body |-> out.body]
    /\ UNCHANGED DISPUTES

----------------------------------------------------------------------------
(* POST /v1/reports/{report_id}/publish *)

\* ReportIndex answering the last report when the id is not stored, as an
\* index of -1 does
ReportIndex_FallsBack(reports, report_id) ==
    IF \E i \in 1..Len(reports) : reports[i].id = report_id
    THEN CHOOSE i \in 1..Len(reports) : reports[i].id = report_id
    ELSE Len(reports)

\* REPORTS.get(report_id): the position of the report, 0 when there is none
ReportIndex(reports, report_id) ==
    IF \E i \in 1..Len(reports) : reports[i].id = report_id
    THEN CHOOSE i \in 1..Len(reports) : reports[i].id = report_id
    ELSE 0

\* ENTITIES.get(entity_id): the position of the entity, 0 when there is none
EntityIndex(ents, entity_id) ==
    IF \E i \in 1..Len(ents) : ents[i].id = entity_id
    THEN CHOOSE i \in 1..Len(ents) : ents[i].id = entity_id
    ELSE 0

\* PublishedCount without the test of the status
PublishedCount_AnyStatus(reports, entity_id) ==
    Cardinality({i \in 1..Len(reports) : reports[i].entity_id = entity_id})

\* sum(1 for rr in REPORTS.values()
\*     if rr["entity_id"] == e["id"] and rr["status"] == "published")
PublishedCount(reports, entity_id) ==
    Cardinality({i \in 1..Len(reports) :
        reports[i].entity_id = entity_id /\ reports[i].status = "published"})

\* e["report_count"] = n
SetReportCount(e, n) == ("report_count" :> n) @@ e

\* r["status"] = "published"
MarkPublished(r) == [r EXCEPT !.status = "published"]

\* BumpReportCount adding one to the stored count
BumpReportCount_Increment(e, reports) ==
    SetReportCount(e, (IF "report_count" \in DOMAIN e THEN e.report_count ELSE 0) + 1)

\* the entity's stored count after a publish
BumpReportCount(e, reports) == SetReportCount(e, PublishedCount(reports, e.id))

\* the handler as a function of the store: the store it leaves and its answer
PublishReport(ents, reports, report_id) ==
    LET k == ReportIndex(reports, report_id) IN
    IF k = 0
    THEN [ENTITIES |-> ents, REPORTS |-> reports,
          code |-> 404, body |-> [detail |-> "report not found"]]
    ELSE LET reports1 == [reports EXCEPT ![k] = MarkPublished(@)]
             j == EntityIndex(ents, reports1[k].entity_id)
         IN [ENTITIES |-> IF j # 0
                          THEN [ents EXCEPT ![j] = BumpReportCount(@, reports1)]
                          ELSE ents,
             REPORTS |-> reports1,
             code |-> 200,
             body |-> [id |-> reports1[k].id, status |-> reports1[k].status]]

publish_report(report_id) ==
    LET out == PublishReport(ENTITIES, REPORTS, report_id) IN
    /\ ENTITIES' = out.ENTITIES
    /\ REPORTS' = out.REPORTS
    /\ last' = [op |-> "publish_report", code |-> out.code, body |-> out.body]
    /\ UNCHANGED <<DISPUTES, submitted>>

\* the ids a client may send: every stored report id, every entity id (no
\* report has one) and an id that is stored nowhere
ReportIds ==
    {REPORTS[i].id : i \in 1..Len(REPORTS)}
        \cup {ENTITIES[j].id : j \in 1..Len(ENTITIES)} \cup {"no-such-report"}

----------------------------------------------------------------------------
(* POST /v1/reports/{report_id}/dispute, from section 4.4 of the           *)
(* specification: the dispute records its report and the report's entity,  *)
(* starts open, and the report becomes disputed whatever its status was.   *)
(* contact_email, text, public_anonymous and created_at are stored as      *)
(* given and left out.                                                     *)

NewDispute(did, r) ==
    [id |-> did,
     report_id |-> r.id,
     entity_id |-> r.entity_id,
     status |-> "open"]

MarkDisputed(r) == [r EXCEPT !.status = "disputed"]

open_dispute(report_id) ==
    LET k == ReportIndex(REPORTS, report_id) IN
    IF k = 0
    THEN /\ last' = [op |-> "open_dispute", code |-> 404,
                     body |-> [detail |-> "report not found"]]
         /\ UNCHANGED <<ENTITIES, REPORTS, DISPUTES, submitted>>
    ELSE /\ Len(DISPUTES) < MaxDisputes
         /\ DISPUTES' = Append(DISPUTES,
                             NewDispute(Uuid("dispute", Len(DISPUTES) + 1), REPORTS[k]))
         /\ REPORTS' = [REPORTS EXCEPT ![k] = MarkDisputed(@)]
         /\ last' = [op |-> "open_dispute", code |-> 200,
                     body |-> [id |-> Uuid("dispute", Len(DISPUTES) + 1),
                               status |-> "open"]]
         /\ UNCHANGED <<ENTITIES, submitted>>

----------------------------------------------------------------------------
(* GET /v1/recent-entities and GET /v1/search *)

\* VisibleCount counting the published reports only
VisibleCount_PublishedOnly(reports, entity_id) ==
    Cardinality({i \in 1..Len(reports) :
        /\ reports[i].entity_id = entity_id
        /\ reports[i].status = "published"})

\* sum(1 for r in REPORTS.values()
\*     if r["entity_id"] == e["id"] and r["status"] in ("published", "disputed"))
VisibleCount(reports, entity_id) ==
    Cardinality({i \in 1..Len(reports) :
        /\ reports[i].entity_id = entity_id
        /\ reports[i].status \in {"published", "disputed"}})

\* e.get("top_identifier") or (e.get("phones") or e.get("emails") or [""])[0]
TopIdentifier(e) ==
    IF Truthy(Get(e, "top_identifier")) THEN e.top_identifier
    ELSE IF GetList(e, "phones") # <<>> THEN e.phones[1]
    ELSE IF GetList(e, "emails") # <<>> THEN e.emails[1]
    ELSE ""

\* the entities recent_entities lists: those whose count is not 0
Listed(ents, reports) ==
    SelectSeq(ents, LAMBDA e : VisibleCount(reports, e.id) # 0)

recent_entities(ents, reports) ==
    LET listed == Listed(ents, reports) IN
    [k \in 1..Len(listed) |->
        [id |-> listed[k].id,
         display_name |-> listed[k].display_name,
         top_identifier |-> TopIdentifier(listed[k]),
         state |-> Get(listed[k], "state"),
         city |-> Get(listed[k], "city"),
         report_count |-> VisibleCount(reports, listed[k].id),
         status |-> "published"]]

\* " ".join([display_name, " ".join(phones), " ".join(emails)]).lower()
Hay(e) ==
    LowerText(Join(<<Chars(Get(e, "display_name")),
                     Join([i \in 1..Len(GetList(e, "phones")) |-> Chars(e.phones[i])]),
                     Join([i \in 1..Len(GetList(e, "emails")) |-> Chars(e.emails[i])])>>))

\* the entities search keeps: q matches and neither filter skips the entity
Found(ents, q, state, city) ==
    SelectSeq(ents, LAMBDA e :
        /\ Contains(Hay(e), Lower(q))
        /\ ~(Truthy(state) /\ Get(e, "state") # state)
        /\ ~(Truthy(city) /\ Get(e, "city") # city))

search(ents, reports, q, state, city) ==
    LET found == Found(ents, q, state, city) IN
    [k \in 1..Len(found) |->
        [id |-> found[k].id,
         display_name |-> found[k].display_name,
         top_identifier |-> TopIdentifier(found[k]),
         state |-> Get(found[k], "state"),
         city |-> Get(found[k], "city"),
         report_count |-> VisibleCount(reports, found[k].id)]]

\* the queries and filters a client may send
Queries == {"", "ACME", "555", "tips@", "zzz"}

StateFilters == {None, "MD", "VA"}

CityFilters == {None, "Baltimore"}

----------------------------------------------------------------------------
(* Specifications *)

\* the handlers of src/app.py
Next ==
    \/ \E payload \in Payloads : create_report(payload)
    \/ \E report_id \in ReportIds : publish_report(report_id)

Spec == Init /\ [][Next]_vars

\* the handlers of src/app.py and the dispute operation
NextD ==
    \/ \E payload \in Payloads :
          /\ LocationOk(payload) => Len(REPORTS) < MaxReportsD
          /\ create_report(payload)
    \/ \E report_id \in ReportIds : publish_report(report_id)
    \/ \E report_id \in ReportIds : open_dispute(report_id)

SpecD == Init /\ [][NextD]_vars

----------------------------------------------------------------------------
(* Properties *)

StoredReportIds == {REPORTS[i].id : i \in 1..Len(REPORTS)}

StoredEntityIds == {ENTITIES[j].id : j \in 1..Len(ENTITIES)}

\* the reports of an entity that the public sees
VisibleReports(entity_id) ==
    {i \in 1..Len(REPORTS) :
        /\ REPORTS[i].entity_id = entity_id
        /\ REPORTS[i].status \in {"published", "disputed"}}

\* C1: two successful submissions whose phones lists are identical and hold at
\* least one phone are answered with the same entity_id.
C1_SamePhonesSameEntity ==
    \A a \in 1..Len(submitted) : \A b \in 1..Len(submitted) :
        (submitted[a].phones = submitted[b].phones /\ Len(submitted[a].phones) >= 1)
            => submitted[a].entity_id = submitted[b].entity_id

\* C2: every report's entity_id is the id of an entity of ENTITIES.
C2_ReferentialIntegrity ==
    \A i \in 1..Len(REPORTS) : REPORTS[i].entity_id \in StoredEntityIds

\* C2 witness: a report of an entity that a submission created, seen after a
\* call that failed.
C2_Witness ==
    /\ \E i \in 1..Len(REPORTS) : REPORTS[i].entity_id # "demo-1"
    /\ last.code \in {400, 404}

\* C3: recent-entities lists an entity exactly when it has a published or
\* disputed report, and shows the number of those reports as its report_count.
C3_RecentEntitiesVisible ==
    LET items == recent_entities(ENTITIES, REPORTS) IN
    \A j \in 1..Len(ENTITIES) :
        LET e == ENTITIES[j]
            shown == {k \in 1..Len(items) : items[k].id = e.id}
        IN /\ (shown # {}) <=> (VisibleReports(e.id) # {})
           /\ \A k \in shown : items[k].report_count = Cardinality(VisibleReports(e.id))

\* C3 witness: one entity is listed for a disputed report while another, whose
\* only report is pending, is not.
C3_Witness ==
    /\ \E i \in 1..Len(REPORTS) : REPORTS[i].status = "disputed"
    /\ \E j \in 1..Len(ENTITIES) : VisibleReports(ENTITIES[j].id) = {}
    /\ Len(recent_entities(ENTITIES, REPORTS)) = 1

\* C4: an entity without a published or disputed report is in no search
\* result, whatever the query and the filters.
C4_SearchOmitsInvisible ==
    \A q \in Queries : \A state \in StateFilters : \A city \in CityFilters :
        LET items == search(ENTITIES, REPORTS, q, state, city) IN
        \A j \in 1..Len(ENTITIES) :
            VisibleReports(ENTITIES[j].id) = {}
                => \A k \in 1..Len(items) : items[k].id # ENTITIES[j].id

\* C5: right after a successful publish of a report, publishing it again
\* succeeds with status published and leaves every report and every entity
\* (report_count included) as the first call left it.
C5_PublishIdempotent ==
    (last.op = "publish_report" /\ last.code = 200) =>
        LET second == PublishReport(ENTITIES, REPORTS, last.body.id) IN
        /\ last.body.status = "published"
        /\ REPORTS[ReportIndex(REPORTS, last.body.id)].status = "published"
        /\ second.code = 200
        /\ second.body.status = "published"
        /\ second.REPORTS = REPORTS
        /\ second.ENTITIES = ENTITIES

\* C5 witness: a successful publish of a report that carries a dispute.
C5_Witness ==
    /\ last.op = "publish_report"
    /\ last.code = 200
    /\ \E d \in 1..Len(DISPUTES) : DISPUTES[d].report_id = last.body.id

\* the mode rule in the words of the claim
ViolatesModeRule(payload) ==
    LET loc == payload.incident_location
        present(k) == k \in DOMAIN loc /\ loc[k] \notin {None, ""}
    IN \/ /\ payload.incident_mode = "digital"
          /\ ~present("scammer_origin")
          /\ ~("unknown" \in DOMAIN loc /\ loc.unknown = "true")
       \/ /\ payload.incident_mode = "in_person"
          /\ (~present("city") \/ ~present("state") \/ ~present("country"))

C7_PublishUnknownChangesNothing ==
    [][\A report_id \in ReportIds :
          (report_id \notin StoredReportIds /\ publish_report(report_id))
              => /\ last'.code = 404
                 /\ ENTITIES' = ENTITIES
                 /\ REPORTS' = REPORTS]_vars

\* C7 witness: a publish answered 404 while a pending report is stored.
C7_Witness ==
    /\ last.op = "publish_report"
    /\ last.code = 404
    /\ \E i \in 1..Len(REPORTS) : REPORTS[i].status = "pending"

\* C8: a report's status changes only from pending to published, from pending
\* to disputed or from published to disputed.
C8_StatusTransitions ==
    [][\A i \in 1..Len(REPORTS) :
          REPORTS'[i].status # REPORTS[i].status
              => <<REPORTS[i].status, REPORTS'[i].status>> \in
                    {<<"pending", "published">>, <<"pending", "disputed">>,
                     <<"published", "disputed">>}]_vars

\* a stored entity shares a phone, or an e-mail whatever its case, with the
\* submitted identifiers
SharesContact(identifiers) ==
    \E j \in 1..Len(ENTITIES) :
        \/ Range(identifiers.phones) \cap Range(ENTITIES[j].phones) # {}
        \/ \E m \in Range(identifiers.emails) : \E em \in Range(ENTITIES[j].emails) :
              Lower(m) = Lower(em)

\* C9: a successful submission appends one pending report and at most one
\* entity and changes no stored report and no stored entity; in every state,
\* the submissions that succeed add an entity exactly when no stored entity
\* shares a contact with them.
C9_SubmitOnlyAdds ==
    /\ [](\A payload \in Payloads :
            LET out == CreateReport(ENTITIES, REPORTS, payload) IN
            out.code = 200 =>
                IF SharesContact(payload.identifiers)
                THEN out.ENTITIES = ENTITIES
                ELSE Len(out.ENTITIES) = Len(ENTITIES) + 1)
    /\ [][(last'.op = "create_report" /\ last'.code = 200)
              => /\ Len(REPORTS') = Len(REPORTS) + 1
                 /\ SubSeq(REPORTS', 1, Len(REPORTS)) = REPORTS
                 /\ REPORTS'[Len(REPORTS')].status = "pending"
                 /\ REPORTS'[Len(REPORTS')].id \notin StoredReportIds
                 /\ \/ ENTITIES' = ENTITIES
                    \/ /\ Len(ENTITIES') = Len(ENTITIES) + 1
                       /\ SubSeq(ENTITIES', 1, Len(ENTITIES)) = ENTITIES
                       /\ ENTITIES'[Len(ENTITIES')].id \notin StoredEntityIds]_vars

\* C9 witness: a successful submission, after one submission created an entity
\* and another was attached to a stored entity.
C9_Witness ==
    /\ last.op = "create_report"
    /\ last.code = 200
    /\ Len(ENTITIES) = 2
    /\ Len(REPORTS) = 3

\* C10: an entity that stores a report_count stores the number of its
\* published reports.
C10_ReportCountFresh ==
    \A j \in 1..Len(ENTITIES) :
        "report_count" \in DOMAIN ENTITIES[j]
            => ENTITIES[j].report_count =
                  Cardinality({i \in 1..Len(REPORTS) :
                      /\ REPORTS[i].entity_id = ENTITIES[j].id
                      /\ REPORTS[i].status = "published"})

\* C10 witness: an entity created by a submission stores a count of 1 while
\* another of its reports is pending.
C10_Witness ==
    \E j \in 1..Len(ENTITIES) :
        /\ ENTITIES[j].id # "demo-1"
        /\ "report_count" \in DOMAIN ENTITIES[j]
        /\ ENTITIES[j].report_count = 1
        /\ \E i \in 1..Len(REPORTS) :
              REPORTS[i].entity_id = ENTITIES[j].id /\ REPORTS[i].status = "pending"

====
